---- MODULE Spec2Model ----
(***************************************************************************)
(* A model of the KEVS text-to-value pipeline of src/kevs.go: the codec    *)
(* primitives (ucs_to_utf8, normString, str_to_uint, str_to_int), the      *)
(* scanner (Scan) and the recursive-descent parser (ParseTokens, Parse).   *)
(*                                                                         *)
(* Text is a sequence of bytes.  A uint64 is a sequence of four 16-bit      *)
(* limbs, least significant first, so that the 64-bit arithmetic of the    *)
(* code, wrap-around included, is computed exactly.                        *)
(***************************************************************************)
EXTENDS Integers, Sequences, FiniteSets, TLC

(***************************************************************************)
(* Bytes and characters                                                    *)
(***************************************************************************)

\* The printable ASCII characters from code 32 (space) to 95, in code order.
AsciiLow ==
  << " ", "!", "\"", "#", "$", "%", "&", "'", "(", ")", "*", "+", ",", "-",
     ".", "/", "0", "1", "2", "3", "4", "5", "6", "7", "8", "9", ":", ";",
     "<", "=", ">", "?", "@", "A", "B", "C", "D", "E", "F", "G", "H", "I",
     "J", "K", "L", "M", "N", "O", "P", "Q", "R", "S", "T", "U", "V", "W",
     "X", "Y", "Z", "[", "\\", "]", "^", "_" >>

\* The printable ASCII characters from code 97 to 126, in code order.
AsciiHigh ==
  << "a", "b", "c", "d", "e", "f", "g", "h", "i", "j", "k", "l", "m", "n",
     "o", "p", "q", "r", "s", "t", "u", "v", "w", "x", "y", "z", "{", "|",
     "}", "~" >>

\* The byte value of a character literal of the source.  The text the
\* program reads is a sequence of such bytes.
Ord(c) ==
  CASE c = "\t" -> 9
    [] c = "\n" -> 10
    [] \E i \in 1..Len(AsciiHigh) : AsciiHigh[i] = c ->
         96 + (CHOOSE i \in 1..Len(AsciiHigh) : AsciiHigh[i] = c)
    [] OTHER -> 31 + (CHOOSE i \in 1..Len(AsciiLow) : AsciiLow[i] = c)

\* The bytes of a string literal, written as a tuple of characters.
Bytes(s) == [i \in 1..Len(s) |-> Ord(s[i])]

kKeyValSep == Ord("=")
kKeyValEnd == Ord(";")
kCommentBegin == Ord("#")
kStringBegin == Ord("\"")
kRawStringBegin == 96
kListBegin == Ord("[")
kListEnd == Ord("]")
kTableBegin == Ord("{")
kTableEnd == Ord("}")
kNewline == Ord("\n")
kBackslash == Ord("\\")
spaces == {Ord(" "), Ord("\t")}

\* advance(n) that leaves the text where it is.
Drop_Nothing(str, n) == str

\* s[n:]
Drop(str, n) == SubSeq(str, n + 1, Len(str))

RECURSIVE BitOr(_, _)
\* a | b on naturals.
BitOr(a, b) ==
  IF a = 0 THEN b
  ELSE IF b = 0 THEN a
  ELSE (IF a % 2 = 1 \/ b % 2 = 1 THEN 1 ELSE 0) + 2 * BitOr(a \div 2, b \div 2)

\* byte(x): the low eight bits.
ToByte(x) == x % 256

chr_0 == Ord("0")
chr_9 == Ord("9")
chr_a == Ord("a")
chr_z == Ord("z")
chr_underscore == Ord("_")
\* 'x' - 'X'
CaseBit == Ord("x") - Ord("X")

is_digit(c) == c >= chr_0 /\ c <= chr_9

lower(c) == BitOr(c, CaseBit)

is_letter(c) == lower(c) >= chr_a /\ lower(c) <= chr_z

is_identifier(s) ==
  /\ (s[1] = chr_underscore \/ is_letter(s[1]))
  /\ \A i \in 2..Len(s) : is_digit(s[i]) \/ is_letter(s[i]) \/ s[i] = chr_underscore

(***************************************************************************)
(* uint64 arithmetic on four 16-bit limbs                                  *)
(***************************************************************************)

LimbBase == 2^16

\* The uint64 of a natural below 2^31.
U64(n) == << n % LimbBase, n \div LimbBase, 0, 0 >>

\* 1<<64 - 1
MaxU64 == << LimbBase - 1, LimbBase - 1, LimbBase - 1, LimbBase - 1 >>

\* uint64(1) << 63
MinInt64Magnitude == << 0, 0, 0, LimbBase \div 2 >>

\* a < b on uint64.
U64Less(a, b) ==
  \E i \in 1..4 : a[i] < b[i] /\ \A j \in (i+1)..4 : a[j] = b[j]

U64LessEq(a, b) == a = b \/ U64Less(a, b)

\* The natural number a uint64 below 2^31 stands for.
U64ToNat(a) == a[1] + LimbBase * a[2]

\* a * m mod 2^64, for a small m.
U64MulSmall(a, m) ==
  LET p1 == a[1] * m
      p2 == a[2] * m + p1 \div LimbBase
      p3 == a[3] * m + p2 \div LimbBase
      p4 == a[4] * m + p3 \div LimbBase
  IN  << p1 % LimbBase, p2 % LimbBase, p3 % LimbBase, p4 % LimbBase >>

\* a + d mod 2^64, for a small d.
U64AddSmall(a, d) ==
  LET s1 == a[1] + d
      s2 == a[2] + s1 \div LimbBase
      s3 == a[3] + s2 \div LimbBase
      s4 == a[4] + s3 \div LimbBase
  IN  << s1 % LimbBase, s2 % LimbBase, s3 % LimbBase, s4 % LimbBase >>

\* a / m, for a small m > 0.
U64DivSmall(a, m) ==
  LET r4 == a[4] % m
      d3 == r4 * LimbBase + a[3]
      r3 == d3 % m
      d2 == r3 * LimbBase + a[2]
      r2 == d2 % m
      d1 == r2 * LimbBase + a[1]
  IN  << d1 \div m, d2 \div m, d3 \div m, a[4] \div m >>

\* -n on int64 bits: the two's complement.
U64Negate(a) ==
  U64AddSmall([i \in 1..4 |-> LimbBase - 1 - a[i]], 1)

\* n >= 0 for the int64 with these bits.
Int64NonNegative(a) == a[4] < LimbBase \div 2

(***************************************************************************)
(* ucs_to_utf8                                                             *)
(***************************************************************************)

\* The nil byte slice; an encoding is a non-empty sequence of bytes.
NilBytes == << >>

\* The conversion without its first test, that of the surrogate range.
ucs_to_utf8_Surrogates(code) ==
  IF U64LessEq(code, U64(127)) THEN << ToByte(U64ToNat(code)) >>
  ELSE IF U64LessEq(code, U64(2047)) THEN
    << ToByte(BitOr(192, U64ToNat(code) \div 64)),
       ToByte(BitOr(128, U64ToNat(code) % 64)) >>
  ELSE IF U64LessEq(code, U64(65535)) THEN
    << ToByte(BitOr(224, U64ToNat(code) \div 4096)),
       ToByte(BitOr(128, (U64ToNat(code) \div 64) % 64)),
       ToByte(BitOr(128, U64ToNat(code) % 64)) >>
  ELSE IF U64LessEq(code, U64(1114111)) THEN
    << ToByte(BitOr(240, U64ToNat(code) \div 262144)),
       ToByte(BitOr(128, (U64ToNat(code) \div 4096) % 64)),
       ToByte(BitOr(128, (U64ToNat(code) \div 64) % 64)),
       ToByte(BitOr(128, U64ToNat(code) % 64)) >>
  ELSE NilBytes

\* Convert UCS code point (a uint64) to UTF-8; NilBytes when there is none.
ucs_to_utf8(code) ==
  IF U64LessEq(U64(55296), code) /\ U64LessEq(code, U64(57343)) THEN NilBytes
  ELSE IF U64LessEq(code, U64(127)) THEN
    LET c == U64ToNat(code) IN << ToByte(c) >>
  ELSE IF U64LessEq(code, U64(2047)) THEN
    LET c == U64ToNat(code)
    IN  << ToByte(BitOr(192, c \div 64)),
           ToByte(BitOr(128, c % 64)) >>
  ELSE IF U64LessEq(code, U64(65535)) THEN
    LET c == U64ToNat(code)
    IN  << ToByte(BitOr(224, c \div 4096)),
           ToByte(BitOr(128, (c \div 64) % 64)),
           ToByte(BitOr(128, c % 64)) >>
  ELSE IF U64LessEq(code, U64(1114111)) THEN
    LET c == U64ToNat(code)
    IN  << ToByte(BitOr(240, c \div 262144)),
           ToByte(BitOr(128, (c \div 4096) % 64)),
           ToByte(BitOr(128, (c \div 64) % 64)),
           ToByte(BitOr(128, c % 64)) >>
  ELSE NilBytes

(***************************************************************************)
(* str_to_uint, str_to_int                                                 *)
(***************************************************************************)

\* The results of a function that returns (value, error).
Ok(v) == [st |-> "ok", val |-> v, err |-> ""]
Err(e) == [st |-> "err", val |-> << >>, err |-> e]
\* A run-time fault of the Go runtime (index or slice bounds out of range).
Fault(e) == [st |-> "panic", val |-> << >>, err |-> e]

\* cutoff: the smallest number such that cutoff*base > max.
str_to_uint_cutoff(base) == U64AddSmall(U64DivSmall(MaxU64, base), 1)

\* The digit the character c stands for, a digit or a letter.
str_to_uint_digit(c) == IF is_digit(c) THEN c - chr_0 ELSE ToByte(lower(c) - chr_a + 10)

\* One iteration of the digit loop of str_to_uint, for the character c: from
\* the accumulator in r to the next accumulator, or to the error returned.
str_to_uint_step(r, c, base) ==
  IF r.st # "ok" THEN r
  ELSE IF ~is_digit(c) /\ ~is_letter(c)
    THEN Err("invalid char, must be a letter or a digit")
  ELSE IF str_to_uint_digit(c) >= base THEN Err("invalid digit, bigger than base")
  ELSE IF ~U64Less(r.val, str_to_uint_cutoff(base)) THEN Err("invalid input, mul overflows")
  ELSE IF \/ U64Less(U64AddSmall(U64MulSmall(r.val, base), str_to_uint_digit(c)),
                     U64MulSmall(r.val, base))
          \/ U64Less(MaxU64, U64AddSmall(U64MulSmall(r.val, base), str_to_uint_digit(c)))
    THEN Err("invalid input, add overflows")
  ELSE Ok(U64AddSmall(U64MulSmall(r.val, base), str_to_uint_digit(c)))

RECURSIVE str_to_uint_loop(_, _, _, _, _)
\* The digit loop of str_to_uint: its iterations for the indices lo..hi of s in
\* turn, the first half of them and then the second, starting from r; an
\* iteration that returns an error ends the loop.
str_to_uint_loop(s, lo, hi, base, r) ==
  IF r.st # "ok" \/ lo > hi THEN r
  ELSE IF lo = hi THEN str_to_uint_step(r, s[lo], base)
  ELSE str_to_uint_loop(s, (lo + hi) \div 2 + 1, hi, base,
                        str_to_uint_loop(s, lo, (lo + hi) \div 2, base, r))

chr_x == Ord("x")
chr_o == Ord("o")
chr_b == Ord("b")
chr_plus == Ord("+")
chr_minus == Ord("-")

str_to_uint(s, base) ==
  IF Len(s) = 0 THEN Err("empty input")
  ELSE IF base = 0 THEN
    IF s[1] = chr_0 THEN
      IF Len(s) = 1 THEN Ok(U64(0))
      ELSE IF Len(s) < 3 THEN Err("leading 0 requires at least 2 more chars")
      ELSE CASE s[2] = chr_x -> str_to_uint_loop(s, 3, Len(s), 16, Ok(U64(0)))
             [] s[2] = chr_o -> str_to_uint_loop(s, 3, Len(s), 8, Ok(U64(0)))
             [] s[2] = chr_b -> str_to_uint_loop(s, 3, Len(s), 2, Ok(U64(0)))
             [] OTHER -> Err("invalid base char, must be 'x', 'o' or 'b'")
    ELSE str_to_uint_loop(s, 1, Len(s), 10, Ok(U64(0)))
  ELSE IF base # 2 /\ base # 8 /\ base # 16 THEN Err("invalid base")
  ELSE str_to_uint_loop(s, 1, Len(s), base, Ok(U64(0)))

\* The range check of str_to_int letting a magnitude of 2^63 pass without sign.
str_to_int_signed_Inclusive(neg, r) ==
  IF r.st # "ok" THEN r
  ELSE IF ~neg /\ U64Less(MinInt64Magnitude, r.val)
    THEN Err("invalid input, overflows max value")
  ELSE IF neg /\ U64Less(MinInt64Magnitude, r.val)
    THEN Err("invalid input, underflows min value")
  ELSE IF neg /\ Int64NonNegative(r.val) THEN Ok(U64Negate(r.val))
  ELSE Ok(r.val)

\* str_to_int once str_to_uint has returned r for the text after the sign.
\* The int64 comes back as its 64 bits.
str_to_int_signed(neg, r) ==
  IF r.st # "ok" THEN r
  ELSE IF ~neg /\ ~U64Less(r.val, MinInt64Magnitude)
    THEN Err("invalid input, overflows max value")
  ELSE IF neg /\ U64Less(MinInt64Magnitude, r.val)
    THEN Err("invalid input, underflows min value")
  ELSE IF neg /\ Int64NonNegative(r.val) THEN Ok(U64Negate(r.val))
  ELSE Ok(r.val)

str_to_int(s, base) ==
  IF Len(s) = 0 THEN Err("empty input")
  ELSE IF s[1] = chr_plus THEN str_to_int_signed(FALSE, str_to_uint(Drop(s, 1), base))
  ELSE IF s[1] = chr_minus THEN str_to_int_signed(TRUE, str_to_uint(Drop(s, 1), base))
  ELSE str_to_int_signed(FALSE, str_to_uint(s, base))

(***************************************************************************)
(* normString                                                              *)
(***************************************************************************)

\* The byte a one-character escape stands for, 0 - 1 when it is none.
EscapeByte(c) ==
  CASE c = chr_a -> 7
    [] c = chr_b -> 8
    [] c = Ord("f") -> 12
    [] c = Ord("n") -> 10
    [] c = Ord("r") -> 13
    [] c = Ord("t") -> 9
    [] c = Ord("v") -> 11
    [] c = kStringBegin -> kStringBegin
    [] c = kBackslash -> kBackslash
    [] OTHER -> 0 - 1

chr_u == Ord("u")
chr_U == Ord("U")

RECURSIVE normString_loop(_, _, _)

\* The \u and \U cases of normString once ucs_to_utf8 has returned utf8.
normString_encoded(s, next, dst, utf8) ==
  IF utf8 = NilBytes THEN Err("could not encode Unicode code point to UTF-8")
  ELSE normString_loop(s, next, dst \o utf8)

\* The \u and \U cases of normString once str_to_uint has returned r.
normString_code(s, next, dst, r) ==
  IF r.st # "ok" THEN r
  ELSE normString_encoded(s, next, dst, ucs_to_utf8(r.val))

\* The \u and \U cases of normString: n hex digits follow index i.
normString_unicode(s, i, n, dst) ==
  IF (i - 1) + n > Len(s)
    THEN Err(IF n = 4 THEN "\\u must be followed by 4 hex digits: \\uXXXX"
             ELSE "\\U must be followed by 8 hex digits: \\UXXXXXXXX")
    ELSE normString_code(s, i + n, dst, str_to_uint(SubSeq(s, i, i + n - 1), 16))

\* The loop of normString, from index i (1-based) with the bytes written so far.
normString_loop(s, i, dst) ==
  IF i > Len(s) THEN Ok(dst)
  ELSE IF s[i] = kBackslash THEN
    IF i + 1 > Len(s) THEN Fault("string index out of range")
    ELSE IF EscapeByte(s[i + 1]) >= 0
      THEN normString_loop(s, i + 2, Append(dst, EscapeByte(s[i + 1])))
    ELSE IF s[i + 1] = chr_u THEN normString_unicode(s, i + 2, 4, dst)
    ELSE IF s[i + 1] = chr_U THEN normString_unicode(s, i + 2, 8, dst)
    ELSE Err("unknown escape sequence")
  ELSE normString_loop(s, i + 1, Append(dst, s[i]))

normString(s) == normString_loop(s, 1, << >>)

(***************************************************************************)
(* Program state                                                           *)
(***************************************************************************)

VARIABLES
  call,      \* the entry point that was called: "Parse" or "ParseTokens"
  flags,     \* Flags
  text,      \* the content argument, as passed
  s,         \* the scanner struct: params.content, tokens, line, err
  sframes,   \* the active scan_list_value / scan_table_value calls, outermost first
  scanRet,   \* what Scan returned, once it has returned
  p,         \* the parser struct: tokens, table, i, err
  pframes,   \* the active parse_key_value / parse_list_value / parse_table_value calls
  ret,       \* what the entry point returned, once it has returned
  fault,     \* the panic that ended the call, if one did
  pc,        \* where the call is
  first,     \* the outcome of the same call made before without AbortOnError
  arg,       \* the argument of a codec primitive that is called on its own
  res        \* what that primitive returned

vars ==
  << call, flags, text, s, sframes, scanRet, p, pframes, ret, fault, pc, first, arg, res >>

\* The nil error, and the error values of the two phases (file:line: error: phase: msg).
\* val is the text the message quotes and cause the error it wraps, if any.
NilError == [phase |-> "nil", line |-> 0, msg |-> "", val |-> << >>, cause |-> ""]
ScanError(line, msg) ==
  [phase |-> "scan", line |-> line, msg |-> msg, val |-> << >>, cause |-> ""]
ParseError(line, msg, val, cause) ==
  [phase |-> "parse", line |-> line, msg |-> msg, val |-> val, cause |-> cause]
\* The error value of a fault of the Go runtime.
RuntimeError(msg) ==
  [phase |-> "runtime", line |-> 0, msg |-> msg, val |-> << >>, cause |-> ""]

NoFault == [kind |-> "none", err |-> NilError]
\* panic(self.err)
AbortFault(e) == [kind |-> "abort", err |-> e]
RuntimeFault(msg) == [kind |-> "runtime", err |-> RuntimeError(msg)]

\* Nothing returned yet.
NoReturn == [returned |-> FALSE, tokens |-> << >>, table |-> << >>, err |-> NilError]
ScanReturn(toks, e) == [returned |-> TRUE, tokens |-> toks, table |-> << >>, err |-> e]
TableReturn(tab, e) == [returned |-> TRUE, tokens |-> << >>, table |-> tab, err |-> e]

Token(kind, val, line) == [Kind |-> kind, Value |-> val, Line |-> line]

(***************************************************************************)
(* Scanner                                                                 *)
(***************************************************************************)

RECURSIVE TrimLeft(_)
\* strings.TrimLeft(s, spaces)
TrimLeft(str) ==
  IF Len(str) > 0 /\ str[1] \in spaces THEN TrimLeft(Tail(str)) ELSE str

RECURSIVE TrimRight(_)
\* strings.TrimRight(s, spaces)
TrimRight(str) ==
  IF Len(str) > 0 /\ str[Len(str)] \in spaces
    THEN TrimRight(SubSeq(str, 1, Len(str) - 1))
    ELSE str

\* strings.IndexByte(s, c): the 0-based index of the first c, or -1.
IndexByte(str, c) ==
  IF \E i \in 1..Len(str) : str[i] = c
    THEN (CHOOSE i \in 1..Len(str) : str[i] = c /\ \A j \in 1..(i-1) : str[j] # c) - 1
    ELSE 0 - 1

\* indexAny(s, chars): the first character of s that is in chars and its
\* 0-based index, or (0, -1).
indexAny(str, chars) ==
  IF \E i \in 1..Len(str) : str[i] \in chars
    THEN LET i == CHOOSE i \in 1..Len(str) :
                    str[i] \in chars /\ \A j \in 1..(i-1) : str[j] \notin chars
         IN  << str[i], i - 1 >>
    ELSE << 0, 0 - 1 >>

\* strings.Count(s, "\n")
CountNewlines(str) == Cardinality({i \in 1..Len(str) : str[i] = kNewline})

\* scanner.expect(c) on content.
ScanExpect(content, c) == Len(content) # 0 /\ content[1] = c

\* scanner.append(kind, end): the scanner after it.
ScanAppend(sc, kind, end) ==
  [sc EXCEPT !.tokens = Append(sc.tokens,
                 Token(kind, TrimRight(SubSeq(sc.content, 1, end)), sc.line)),
             !.content = Drop(sc.content, end)]

\* scanner.append_delim(): the scanner after it.
ScanAppendDelim(sc) ==
  [sc EXCEPT !.tokens = Append(sc.tokens,
                 Token("delim", SubSeq(sc.content, 1, 1), sc.line)),
             !.content = Drop(sc.content, 1)]

\* scanner.trim_space(): the scanner after it.
ScanTrimSpace(sc) == [sc EXCEPT !.content = TrimLeft(sc.content)]

\* The parser ParseTokens constructs.
NewParser(toks) == [tokens |-> toks, table |-> << >>, i |-> 0, err |-> NilError]

\* scanner.errorf(msg): the scanner after it has set err.
ScannerErrorf(sc, msg) == [sc EXCEPT !.err = ScanError(sc.line, msg)]

\* The test of scanner.errorf that makes it panic.
ScannerErrorfPanics == flags.AbortOnError

\* What Scan returns when a step was not ok.
ScanFailure(sc) == ScanReturn(<< >>, sc.err)

\* What Parse returns when Scan returned err.
ParseFailureOfScan(err) == TableReturn(<< >>, err)

\* scanner.errorf(msg) in scanner state sc, and the return of false up to Scan
\* and from there out of Parse; with AbortOnError the panic instead.
ScanFails(sc, msg) ==
  /\ s' = ScannerErrorf(sc, msg)
  /\ IF ScannerErrorfPanics
       THEN /\ fault' = AbortFault(s'.err)
            /\ pc' = "panic"
            /\ UNCHANGED << scanRet, ret >>
       ELSE /\ scanRet' = ScanFailure(s')
            /\ ret' = ParseFailureOfScan(scanRet'.err)
            /\ pc' = "done"
            /\ UNCHANGED fault
  /\ UNCHANGED << call, flags, text, sframes, p, pframes, first, arg, res >>

\* The scanner goes on in state sc with call stack fr at position next.
ScanGoesOn(sc, fr, next) ==
  /\ s' = sc
  /\ sframes' = fr
  /\ pc' = next
  /\ UNCHANGED << call, flags, text, scanRet, p, pframes, ret, fault, first, arg, res >>

\* The loop that is running: Scan's own, or that of the innermost list or table.
ScanContext == IF sframes = << >> THEN "top" ELSE sframes[Len(sframes)]

\* The head of an iteration: Scan's loop runs while content is left.
AtScanLoop ==
  /\ pc = "scan_loop"
  /\ ScanContext = "top" => Len(s.content) # 0

\* No earlier case of the running loop takes the iteration.
ScanLoopDefault ==
  LET c == TrimLeft(s.content)
  IN  /\ AtScanLoop
      /\ ~ScanExpect(c, kNewline)
      /\ ~ScanExpect(c, kCommentBegin)
      /\ ScanContext # "top" => Len(c) # 0
      /\ ScanContext = "list" => ~ScanExpect(c, kListEnd)
      /\ ScanContext = "table" => ~ScanExpect(c, kTableEnd)

\* scan_value is entered: after a key and its separator, or for a list element.
AtScanValue == pc = "scan_value" \/ (ScanLoopDefault /\ ScanContext = "list")

\* Scan: the loop ends and Scan returns its tokens; Parse hands them to ParseTokens.
ScanReturns ==
  /\ pc = "scan_loop"
  /\ sframes = << >>
  /\ Len(s.content) = 0
  /\ scanRet' = ScanReturn(s.tokens, NilError)
  /\ p' = NewParser(s.tokens)
  /\ pc' = "parse_loop"
  /\ UNCHANGED << call, flags, text, s, sframes, pframes, ret, fault, first, arg, res >>

\* scan_newline, in any of the three loops.
ScanNewline ==
  LET sc == ScanTrimSpace(s)
  IN  /\ AtScanLoop
      /\ ScanExpect(sc.content, kNewline)
      /\ ScanGoesOn([sc EXCEPT !.line = sc.line + 1, !.content = Drop(sc.content, 1)],
                    sframes, "scan_loop")

\* scan_comment, in any of the three loops.
ScanComment ==
  LET sc == ScanTrimSpace(s)
      newline == IndexByte(sc.content, kNewline)
  IN  /\ AtScanLoop
      /\ ScanExpect(sc.content, kCommentBegin)
      /\ IF newline = 0 - 1
           THEN ScanFails(sc, "comment does not end with newline")
           ELSE ScanGoesOn([sc EXCEPT !.content = Drop(sc.content, newline)],
                           sframes, "scan_loop")

\* scan_list_value, scan_table_value: the input ends inside the list or table.
ScanEndOfInput ==
  LET sc == ScanTrimSpace(s)
  IN  /\ AtScanLoop
      /\ ScanContext # "top"
      /\ Len(sc.content) = 0
      /\ ScanFails(sc, IF ScanContext = "list" THEN "end of input without list end"
                       ELSE "end of input without table end")

\* scan_value after its value has been scanned: the terminating semicolon.
ScanValueEnds(sc, fr) ==
  IF ScanExpect(sc.content, kKeyValEnd)
    THEN ScanGoesOn(ScanAppendDelim(sc), fr, "scan_loop")
    ELSE ScanFails(sc, "value does not end with semicolon")

\* scan_list_value sees the closing bracket and returns to scan_value.
ScanListEnd ==
  LET sc == ScanTrimSpace(s)
  IN  /\ AtScanLoop
      /\ ScanContext = "list"
      /\ ScanExpect(sc.content, kListEnd)
      /\ ScanValueEnds(ScanAppendDelim(sc), SubSeq(sframes, 1, Len(sframes) - 1))

\* scan_table_value sees the closing brace and returns to scan_value.
ScanTableEnd ==
  LET sc == ScanTrimSpace(s)
  IN  /\ AtScanLoop
      /\ ScanContext = "table"
      /\ ScanExpect(sc.content, kTableEnd)
      /\ ScanValueEnds(ScanAppendDelim(sc), SubSeq(sframes, 1, Len(sframes) - 1))

\* scan_key_value up to its call of scan_value: scan_key, then append_delim.
ScanKey ==
  LET sc == ScanTrimSpace(s)
      found == indexAny(sc.content, {kKeyValSep, kKeyValEnd, kNewline})
      withKey == ScanAppend(sc, "key", found[2])
  IN  /\ ScanLoopDefault
      /\ ScanContext # "list"
      /\ IF found[1] # kKeyValSep
           THEN ScanFails(sc, "key-value pair is missing separator")
         ELSE IF Len(withKey.tokens[Len(withKey.tokens)].Value) = 0
           THEN ScanFails(withKey, "empty key")
         ELSE ScanGoesOn(ScanAppendDelim(withKey), sframes, "scan_value")

\* scan_value, first case: scan_list_value starts.
ScanListBegin ==
  LET sc == ScanTrimSpace(s)
  IN  /\ AtScanValue
      /\ ScanExpect(sc.content, kListBegin)
      /\ ScanGoesOn(ScanAppendDelim(sc), Append(sframes, "list"), "scan_loop")

\* scan_value, second case: scan_table_value starts.
ScanTableBegin ==
  LET sc == ScanTrimSpace(s)
  IN  /\ AtScanValue
      /\ ScanExpect(sc.content, kTableBegin)
      /\ ScanGoesOn(ScanAppendDelim(sc), Append(sframes, "table"), "scan_loop")

RECURSIVE StringEnd(_, _)
\* The loop of scan_string_value from its variable end: the end of the token,
\* or -1 when no closing quote is found.
StringEnd(str, end) ==
  LET i == IndexByte(Drop(str, end), kStringBegin)
      e == end + i + 1
  IN  IF i = 0 - 1 THEN 0 - 1
      ELSE IF str[e - 1] # kBackslash THEN e
      ELSE StringEnd(str, e)

\* scan_value, third case: scan_string_value.
ScanStringValue ==
  LET sc == ScanTrimSpace(s)
      end == StringEnd(sc.content, 1)
  IN  /\ AtScanValue
      /\ ScanExpect(sc.content, kStringBegin)
      /\ IF end = 0 - 1
           THEN ScanFails(sc, "string value does not end with quote")
           ELSE ScanValueEnds(ScanAppend(sc, "value", end), sframes)

\* scan_value, fourth case: scan_raw_string.
ScanRawString ==
  LET sc == ScanTrimSpace(s)
      end == IndexByte(Drop(sc.content, 1), kRawStringBegin)
      withVal == ScanAppend(sc, "value", end + 2)
  IN  /\ AtScanValue
      /\ ScanExpect(sc.content, kRawStringBegin)
      /\ IF end = 0 - 1
           THEN ScanFails(sc, "raw string value does not end with backtick")
           ELSE ScanValueEnds(
                  [withVal EXCEPT !.line =
                     withVal.line + CountNewlines(withVal.tokens[Len(withVal.tokens)].Value)],
                  sframes)

\* scan_value, default case: scan_int_or_bool_value.
ScanIntOrBoolValue ==
  LET sc == ScanTrimSpace(s)
      found == indexAny(sc.content, {kKeyValEnd, kListEnd, kTableEnd, kNewline})
  IN  /\ AtScanValue
      /\ ~ScanExpect(sc.content, kListBegin)
      /\ ~ScanExpect(sc.content, kTableBegin)
      /\ ~ScanExpect(sc.content, kStringBegin)
      /\ ~ScanExpect(sc.content, kRawStringBegin)
      /\ IF found[2] = 0 - 1 \/ found[1] # kKeyValEnd
           THEN ScanFails(sc, "integer or boolean value does not end with semicolon")
           ELSE ScanValueEnds(ScanAppend(sc, "value", found[2]), sframes)

(***************************************************************************)
(* Parser                                                                  *)
(***************************************************************************)

\* The zero ValueData, and the Values parse_simple_value, parse_list_value and
\* parse_table_value build.
ZeroData ==
  [List |-> << >>, Table |-> << >>, String |-> << >>, Integer |-> U64(0), Boolean |-> FALSE]
StringValue(str) == [Kind |-> "string", Data |-> [ZeroData EXCEPT !.String = str]]
IntegerValue(n) == [Kind |-> "integer", Data |-> [ZeroData EXCEPT !.Integer = n]]
BooleanValue(b) == [Kind |-> "boolean", Data |-> [ZeroData EXCEPT !.Boolean = b]]
ListValue(l) == [Kind |-> "list", Data |-> [ZeroData EXCEPT !.List = l]]
TableValue(t) == [Kind |-> "table", Data |-> [ZeroData EXCEPT !.Table = t]]
KeyValue(k, v) == [Key |-> k, Value |-> v]

\* An active call: parse_key_value holding its key, or parse_list_value /
\* parse_table_value holding its out.
KeyValueFrame(k) == [fn |-> "kv", key |-> k, out |-> << >>]
ListFrame == [fn |-> "list", key |-> << >>, out |-> << >>]
TableFrame == [fn |-> "table", key |-> << >>, out |-> << >>]

\* parser.get()
ParserGet(pp) == pp.tokens[pp.i + 1]

\* parser.pop()
ParserPop(pp) == [pp EXCEPT !.i = pp.i + 1]

\* The test at the head of parser.expect: no token is left.
ParserExhausted(pp) == pp.i >= Len(pp.tokens)

\* parser.expect(kind), when a token is left.
ParserExpect(pp, kind) == ParserGet(pp).Kind = kind

\* parser.expect_delim(delim), when a token is left.
ParserExpectDelim(pp, delim) ==
  ParserExpect(pp, "delim") /\ ParserGet(pp).Value = << delim >>

\* parser.errorf(msg, val, cause) with a token at hand: the parser after it
\* has set err, with the line of that token.
ParserErrorf(pp, msg, val, cause) ==
  [pp EXCEPT !.err = ParseError(ParserGet(pp).Line, msg, val, cause)]

\* parser.errorf without its test of the flag.
ParserErrorfPanics_Never == FALSE

\* The test of parser.errorf that makes it panic.
ParserErrorfPanics == flags.AbortOnError

\* ParseTokens handing out the table it has accumulated along with the error.
ParseTokensFailure_Accumulated(pp) == TableReturn(pp.table, pp.err)

\* What ParseTokens returns when parse_key_value was not ok.
ParseTokensFailure(pp) == TableReturn(<< >>, pp.err)

\* A fault of the Go runtime ends the call.
ParseFaults(pp, msg) ==
  /\ p' = pp
  /\ fault' = RuntimeFault(msg)
  /\ pc' = "panic"
  /\ UNCHANGED << call, flags, text, s, sframes, scanRet, pframes, ret, first, arg, res >>

\* parser.errorf(msg, val, cause) in parser state pp, and the return of false up to
\* ParseTokens and out of it; with AbortOnError the panic instead.  errorf reads
\* the line of the current token first.
ParseFails(pp, msg, val, cause) ==
  IF ParserExhausted(pp) THEN ParseFaults(pp, "token index out of range")
  ELSE
    /\ p' = ParserErrorf(pp, msg, val, cause)
    /\ IF ParserErrorfPanics
         THEN /\ fault' = AbortFault(p'.err)
              /\ pc' = "panic"
              /\ UNCHANGED ret
         ELSE /\ ret' = ParseTokensFailure(p')
              /\ pc' = "done"
              /\ UNCHANGED fault
    /\ UNCHANGED << call, flags, text, s, sframes, scanRet, pframes, first, arg, res >>

\* The parser goes on in state pp with call stack fr at position next.
ParseGoesOn(pp, fr, next) ==
  /\ p' = pp
  /\ pframes' = fr
  /\ pc' = next
  /\ UNCHANGED << call, flags, text, s, sframes, scanRet, ret, fault, first, arg, res >>

\* The loop that is running: that of ParseTokens, or of the innermost call.
ParseContext == IF pframes = << >> THEN "top" ELSE pframes[Len(pframes)].fn

\* The head of an iteration: the loop of ParseTokens runs while tokens are left.
AtParseLoop ==
  /\ pc = "parse_loop"
  /\ ParseContext = "top" => ~ParserExhausted(p)

\* parse_value is entered: from parse_key_value, or for a list element.
AtParseValue ==
  \/ pc = "parse_value"
  \/ /\ AtParseLoop
     /\ ParseContext = "list"
     /\ ~ParserExhausted(p)
     /\ ~ParserExpectDelim(p, kListEnd)

\* ParseTokens: the loop ends and the table is returned.
ParseTokensReturns ==
  /\ pc = "parse_loop"
  /\ pframes = << >>
  /\ ParserExhausted(p)
  /\ ret' = TableReturn(p.table, NilError)
  /\ pc' = "done"
  /\ UNCHANGED << call, flags, text, s, sframes, scanRet, p, pframes, fault, first, arg, res >>

\* parser.expect with no token left, where a list, a table or a value looks
\* for its next token: errorf calls get, which indexes past the tokens.
ParseOutOfTokens ==
  /\ pc = "parse_value" \/ (pc = "parse_loop" /\ pframes # << >>)
  /\ ParserExhausted(p)
  /\ ParseFaults(p, "token index out of range")

\* The caller of parse_value putting the value in front of what it holds.
Deliver_InFront(fr, tab, val) ==
  LET top == fr[Len(fr)]
      below == SubSeq(fr, 1, Len(fr) - 1)
  IN  IF top.fn = "list"
        THEN [frames |-> [fr EXCEPT ![Len(fr)].out = << val >> \o top.out],
              table |-> tab]
      ELSE IF below = << >>
        THEN [frames |-> below, table |-> << KeyValue(top.key, val) >> \o tab]
      ELSE [frames |-> [below EXCEPT ![Len(below)].out =
                           << KeyValue(top.key, val) >> \o below[Len(below)].out],
            table |-> tab]

\* The value val is returned to the call on top of the stack fr, which appends it.
Deliver(fr, tab, val) ==
  LET top == fr[Len(fr)]
      below == SubSeq(fr, 1, Len(fr) - 1)
  IN  IF top.fn = "list"
        THEN [frames |-> [fr EXCEPT ![Len(fr)].out = Append(top.out, val)],
              table |-> tab]
      ELSE IF below = << >>
        THEN [frames |-> below, table |-> Append(tab, KeyValue(top.key, val))]
      ELSE [frames |-> [below EXCEPT ![Len(below)].out =
                           Append(below[Len(below)].out, KeyValue(top.key, val))],
            table |-> tab]

\* parse_value after its value val has been parsed: the terminating semicolon,
\* and the append by the caller.
ParseValueEnds(pp, fr, val) ==
  IF ParserExhausted(pp) THEN ParseFaults(pp, "token index out of range")
  ELSE IF ~ParserExpectDelim(pp, kKeyValEnd)
    THEN ParseFails(pp, "missing key value end", << >>, "")
  ELSE
    LET d == Deliver(fr, pp.table, val)
    IN  ParseGoesOn([ParserPop(pp) EXCEPT !.table = d.table], d.frames, "parse_loop")

\* The keys of a table.
Keys(tab) == {tab[j].Key : j \in 1..Len(tab)}

\* The check of parse_key looking at the last entry of parent only.
KeyIsUnique_LastEntry(parent, key) ==
  parent = << >> \/ parent[Len(parent)].Key # key

\* The check of parse_key that the key is unique in parent.
KeyIsUnique(parent, key) == key \notin Keys(parent)

\* parse_key_value up to its call of parse_value: parse_key, then the separator.
ParseKey ==
  LET tok == ParserGet(p)
      parent == IF ParseContext = "top" THEN p.table ELSE pframes[Len(pframes)].out
      pp == ParserPop(p)
  IN  /\ AtParseLoop
      /\ ParseContext \in {"top", "table"}
      /\ ~ParserExhausted(p)
      /\ ParseContext = "table" => ~ParserExpectDelim(p, kTableEnd)
      /\ IF ~ParserExpect(p, "key") THEN ParseFails(p, "expected key token", << >>, "")
         ELSE IF Len(tok.Value) = 0 THEN ParseFaults(p, "string index out of range")
         ELSE IF ~is_identifier(tok.Value)
           THEN ParseFails(p, "key is not a valid identifier", tok.Value, "")
         ELSE IF ~KeyIsUnique(parent, tok.Value)
           THEN ParseFails(p, "key is not unique for current table", tok.Value, "")
         ELSE IF ParserExhausted(pp) THEN ParseFaults(pp, "token index out of range")
         ELSE IF ~ParserExpectDelim(pp, kKeyValSep)
           THEN ParseFails(pp, "missing key value separator", << >>, "")
         ELSE ParseGoesOn(ParserPop(pp), Append(pframes, KeyValueFrame(tok.Value)),
                          "parse_value")

\* parse_value, first case: parse_list_value starts.
ParseListBegin ==
  /\ AtParseValue
  /\ ~ParserExhausted(p)
  /\ ParserExpectDelim(p, kListBegin)
  /\ ParseGoesOn(ParserPop(p), Append(pframes, ListFrame), "parse_loop")

\* parse_value, second case: parse_table_value starts.
ParseTableBegin ==
  /\ AtParseValue
  /\ ~ParserExhausted(p)
  /\ ParserExpectDelim(p, kTableBegin)
  /\ ParseGoesOn(ParserPop(p), Append(pframes, TableFrame), "parse_loop")

\* parse_list_value sees the closing bracket and returns its list to parse_value.
ParseListEnd ==
  /\ AtParseLoop
  /\ ParseContext = "list"
  /\ ~ParserExhausted(p)
  /\ ParserExpectDelim(p, kListEnd)
  /\ ParseValueEnds(ParserPop(p), SubSeq(pframes, 1, Len(pframes) - 1),
                    ListValue(pframes[Len(pframes)].out))

\* parse_table_value sees the closing brace and returns its table to parse_value.
ParseTableEnd ==
  /\ AtParseLoop
  /\ ParseContext = "table"
  /\ ~ParserExhausted(p)
  /\ ParserExpectDelim(p, kTableEnd)
  /\ ParseValueEnds(ParserPop(p), SubSeq(pframes, 1, Len(pframes) - 1),
                    TableValue(pframes[Len(pframes)].out))

\* parse_simple_value once normString has returned r.
SimpleStringValue(r) ==
  IF r.st = "ok" THEN Ok(StringValue(r.val))
  ELSE IF r.st = "err"
    THEN [r EXCEPT !.val = [msg |-> "could not normalize string",
                            val |-> << >>, cause |-> r.err]]
  ELSE r

\* parse_simple_value once str_to_int has returned r for val.
SimpleIntegerValue(val, r) ==
  IF r.st = "ok" THEN Ok(IntegerValue(r.val))
  ELSE [r EXCEPT !.val = [msg |-> "value is not an integer",
                          val |-> val, cause |-> r.err]]

\* The switch of parse_simple_value on the text of a value token: the Value,
\* the message of the error, or a fault of the Go runtime.
SimpleValue(val) ==
  IF Len(val) = 0 THEN Fault("string index out of range")
  ELSE IF val[1] = kStringBegin THEN
    IF Len(val) < 2 THEN Fault("slice bounds out of range")
    ELSE SimpleStringValue(normString(SubSeq(val, 2, Len(val) - 1)))
  ELSE IF val[1] = kRawStringBegin THEN
    IF Len(val) < 2 THEN Fault("slice bounds out of range")
    ELSE Ok(StringValue(SubSeq(val, 2, Len(val) - 1)))
  ELSE IF val = Bytes(<< "t", "r", "u", "e" >>) THEN Ok(BooleanValue(TRUE))
  ELSE IF val = Bytes(<< "f", "a", "l", "s", "e" >>) THEN Ok(BooleanValue(FALSE))
  ELSE SimpleIntegerValue(val, str_to_int(val, 0))

\* parse_simple_value on the value token at hand, its switch having given r.
SimpleValueParsed(r) ==
  IF r.st = "panic" THEN ParseFaults(p, r.err)
  ELSE IF r.st = "err" THEN ParseFails(p, r.val.msg, r.val.val, r.val.cause)
  ELSE ParseValueEnds(ParserPop(p), pframes, r.val)

\* parse_value, default case: parse_simple_value.
ParseSimpleValue ==
  /\ AtParseValue
  /\ ~ParserExhausted(p)
  /\ ~ParserExpectDelim(p, kListBegin)
  /\ ~ParserExpectDelim(p, kTableBegin)
  /\ IF ~ParserExpect(p, "value") THEN ParseFails(p, "expected value token", << >>, "")
     ELSE SimpleValueParsed(SimpleValue(ParserGet(p).Value))

(***************************************************************************)
(* The calls                                                               *)
(***************************************************************************)

\* The scanner Scan constructs.
NewScanner(content) == [content |-> content, tokens |-> << >>, line |-> 1, err |-> NilError]

\* No earlier call was made.
NoFirst ==
  [made |-> FALSE, scanRet |-> NoReturn, ret |-> NoReturn, fault |-> NoFault,
   s |-> NewScanner(<< >>), p |-> NewParser(<< >>)]

\* No codec primitive is called on its own.
NoArg == << >>
NoRes == << >>

\* Parse(file, content, flags) is called.
CallParse(content, fl) ==
  /\ arg = NoArg
  /\ res = NoRes
  /\ call = "Parse"
  /\ flags = fl
  /\ text = content
  /\ s = NewScanner(content)
  /\ sframes = << >>
  /\ scanRet = NoReturn
  /\ p = NewParser(<< >>)
  /\ pframes = << >>
  /\ ret = NoReturn
  /\ fault = NoFault
  /\ pc = "scan_loop"

\* ParseTokens(file, content, flags, tokens) is called.
CallParseTokens(toks, fl) ==
  /\ arg = NoArg
  /\ res = NoRes
  /\ call = "ParseTokens"
  /\ flags = fl
  /\ text = << >>
  /\ s = NewScanner(<< >>)
  /\ sframes = << >>
  /\ scanRet = NoReturn
  /\ p = NewParser(toks)
  /\ pframes = << >>
  /\ ret = NoReturn
  /\ fault = NoFault
  /\ pc = "parse_loop"

\* The call has ended: it returned, or a panic left it.
Ended == pc \in {"done", "panic"}

\* The caller makes the same call again, this time with AbortOnError set.
CallAgainWithAbort ==
  /\ Ended
  /\ ~flags.AbortOnError
  /\ first' = [made |-> TRUE, scanRet |-> scanRet, ret |-> ret, fault |-> fault,
               s |-> s, p |-> p]
  /\ flags' = [AbortOnError |-> TRUE]
  /\ s' = NewScanner(text)
  /\ sframes' = << >>
  /\ scanRet' = NoReturn
  /\ p' = NewParser(IF call = "Parse" THEN << >> ELSE p.tokens)
  /\ pframes' = << >>
  /\ ret' = NoReturn
  /\ fault' = NoFault
  /\ pc' = IF call = "Parse" THEN "scan_loop" ELSE "parse_loop"
  /\ UNCHANGED << call, text, arg, res >>

(***************************************************************************)
(* The inputs                                                              *)
(***************************************************************************)

\* The number of fragments a source text is made of, at most.
MaxFrags == 4

\* The number of tokens handed to ParseTokens directly, at most.
MaxTokens == 3

\* The pieces the source texts are made of: whole pairs, the openings and
\* closings of tables and lists, list elements, and single characters.
Fragments ==
  { Bytes(<< "a", "=", "1", ";" >>),
    Bytes(<< "b", " ", "=", " " >>),
    Bytes(<< "t", "r", "u", "e", ";" >>),
    Bytes(<< "a", "=", "{" >>),
    Bytes(<< "}", ";" >>),
    Bytes(<< "b", "=", "[" >>),
    Bytes(<< "]", ";" >>),
    Bytes(<< "1", ";" >>),
    Bytes(<< ";" >>),
    Bytes(<< "\"" >>),
    Bytes(<< "\\", "\\", "\"" >>),
    << kRawStringBegin >>,
    Bytes(<< "\n" >>),
    Bytes(<< "#" >>) }

RECURSIVE Texts(_)
\* The texts made of at most n fragments.
Texts(n) ==
  IF n = 0 THEN {<< >>}
  ELSE LET shorter == Texts(n - 1)
       IN  shorter \cup {t \o f : t \in shorter, f \in Fragments}

\* The tokens handed to ParseTokens directly; the token at index i is on line i.
TokenShapes ==
  { << "key", Bytes(<< "a" >>) >>, << "key", << >> >>,
    << "delim", << kKeyValSep >> >>, << "delim", << kKeyValEnd >> >>,
    << "delim", << kListBegin >> >>, << "delim", << kListEnd >> >>,
    << "delim", << kTableBegin >> >>, << "delim", << kTableEnd >> >>,
    << "value", Bytes(<< "1" >>) >>, << "value", << >> >>,
    << "value", << kStringBegin >> >>, << "value", Bytes(<< "\"", "\\", "\"" >>) >> }

TokenSeqs ==
  UNION { { [i \in 1..n |-> Token(sh[i][1], sh[i][2], i)] :
              sh \in [1..n -> TokenShapes] } : n \in 0..MaxTokens }

Init ==
  /\ first = NoFirst
  /\ \/ \E t \in Texts(MaxFrags) : CallParse(t, [AbortOnError |-> FALSE])
     \/ \E toks \in TokenSeqs : CallParseTokens(toks, [AbortOnError |-> FALSE])

ScanStep ==
  \/ ScanReturns
  \/ ScanNewline
  \/ ScanComment
  \/ ScanEndOfInput
  \/ ScanKey
  \/ ScanListBegin
  \/ ScanTableBegin
  \/ ScanListEnd
  \/ ScanTableEnd
  \/ ScanStringValue
  \/ ScanRawString
  \/ ScanIntOrBoolValue

ParseStep ==
  \/ ParseTokensReturns
  \/ ParseOutOfTokens
  \/ ParseKey
  \/ ParseListBegin
  \/ ParseTableBegin
  \/ ParseListEnd
  \/ ParseTableEnd
  \/ ParseSimpleValue

Next == ScanStep \/ ParseStep

Spec == Init /\ [][Next]_vars


(***************************************************************************)
(* Parse reports every failure as an error value                           *)
(***************************************************************************)

\* C1: with AbortOnError unset, Parse never panics, whatever the text: every
\* failure, the empty value of "a = ;" included, comes back as a non-nil error.
C1_ParseNeverPanics ==
  (call = "Parse" /\ ~flags.AbortOnError) => pc # "panic"

(***************************************************************************)
(* No partial result                                                       *)
(***************************************************************************)

\* C2: Scan, ParseTokens and Parse return either a nil error with the complete
\* result (all of the text scanned, all of the tokens parsed, no call still
\* open), or a non-nil error with a nil result: what was accumulated before a
\* failure is never handed out.
C2_NoPartialResult ==
  /\ scanRet.returned =>
       IF scanRet.err = NilError
         THEN scanRet.tokens = s.tokens /\ s.content = << >> /\ sframes = << >>
         ELSE scanRet.tokens = << >> /\ scanRet.err = s.err
  /\ ret.returned =>
       IF ret.err = NilError
         THEN /\ ret.table = p.table
              /\ ParserExhausted(p)
              /\ pframes = << >>
              /\ call = "Parse" =>
                   scanRet.returned /\ scanRet.err = NilError /\ p.tokens = scanRet.tokens
         ELSE ret.table = << >>

\* Parse fails in the parser after Scan has returned its tokens and entries
\* were accumulated in the root table, and the error comes back alone.
C2_Witness ==
  /\ call = "Parse"
  /\ scanRet.returned
  /\ scanRet.tokens # << >>
  /\ ret.returned
  /\ ret.err.phase = "parse"
  /\ ret.table = << >>
  /\ p.table # << >>

(***************************************************************************)
(* Keys are unique within a table                                          *)
(***************************************************************************)

\* The table the pair at hand is parsed into.
CurrentTable == IF ParseContext = "top" THEN p.table ELSE pframes[Len(pframes)].out

\* The parser is at a key token that holds a valid identifier.
AtKeyToken ==
  /\ AtParseLoop
  /\ ParseContext \in {"top", "table"}
  /\ ~ParserExhausted(p)
  /\ ParserExpect(p, "key")
  /\ Len(ParserGet(p).Value) > 0
  /\ is_identifier(ParserGet(p).Value)

\* The error of a duplicate key, for the key token tok.
DuplicateKeyError(tok) ==
  ParseError(tok.Line, "key is not unique for current table", tok.Value, "")

\* No two entries of tab have the same key.
DistinctKeys(tab) ==
  \A j, k \in 1..Len(tab) : tab[j].Key = tab[k].Key => j = k

RECURSIVE TablesOf(_)
\* The tables in the value v, v included.
TablesOf(v) ==
  IF v.Kind = "table"
    THEN {v.Data.Table} \cup UNION {TablesOf(v.Data.Table[j].Value) : j \in 1..Len(v.Data.Table)}
  ELSE IF v.Kind = "list"
    THEN UNION {TablesOf(v.Data.List[j]) : j \in 1..Len(v.Data.List)}
  ELSE {}

\* C3: within one table every key occurs at most once; a key that is already in
\* the table the parser is filling makes the call fail at that second
\* occurrence with the error that names the key, and a key that is only in
\* another table (a parent, a child, a sibling) is not reported as duplicate.
C3_KeysUniquePerTable ==
  /\ [](\A t \in TablesOf(TableValue(ret.table)) : DistinctKeys(t))
  /\ [][(AtKeyToken /\ ParserGet(p).Value \in Keys(CurrentTable))
          => (ret'.returned /\ ret'.table = << >>
              /\ ret'.err = DuplicateKeyError(ParserGet(p)))]_vars
  /\ [][(AtKeyToken /\ ParserGet(p).Value \notin Keys(CurrentTable))
          => ~(ret'.returned /\ ret'.err = DuplicateKeyError(ParserGet(p)))]_vars

\* A key that is held by the parent table is accepted in the child table once,
\* and rejected there at its second occurrence.
C3_Witness ==
  /\ ret.returned
  /\ ret.err.phase = "parse"
  /\ ret.err.msg = "key is not unique for current table"
  /\ Len(pframes) >= 2
  /\ pframes[Len(pframes)].fn = "table"
  /\ pframes[Len(pframes) - 1].key = ret.err.val
  /\ ret.err.val \in Keys(pframes[Len(pframes)].out)

(***************************************************************************)
(* The tree has the structure and the order of the source                  *)
(***************************************************************************)

\* One item of the source: a key, a delimiter, or a scalar with its value.
KeyItem(k) == [kind |-> "key", text |-> k, value |-> BooleanValue(FALSE)]
DelimItem(c) == [kind |-> "delim", text |-> << c >>, value |-> BooleanValue(FALSE)]
ScalarItem(v) == [kind |-> "scalar", text |-> << >>, value |-> v]

\* The items the tokens toks stand for.
ItemsOf(toks) ==
  [j \in 1..Len(toks) |->
     IF toks[j].Kind = "key" THEN KeyItem(toks[j].Value)
     ELSE IF toks[j].Kind = "delim" THEN
       [kind |-> "delim", text |-> toks[j].Value, value |-> BooleanValue(FALSE)]
     ELSE ScalarItem(SimpleValue(toks[j].Value).val)]

RECURSIVE ValueItems(_), ListItems(_), TableItems(_)
\* The items a value, the elements of a list and the entries of a table are
\* written with, in order.
ValueItems(v) ==
  (IF v.Kind = "list"
     THEN << DelimItem(kListBegin) >> \o ListItems(v.Data.List) \o << DelimItem(kListEnd) >>
   ELSE IF v.Kind = "table"
     THEN << DelimItem(kTableBegin) >> \o TableItems(v.Data.Table)
            \o << DelimItem(kTableEnd) >>
   ELSE << ScalarItem(v) >>)
  \o << DelimItem(kKeyValEnd) >>
ListItems(l) ==
  IF l = << >> THEN << >>
  ELSE ListItems(SubSeq(l, 1, Len(l) - 1)) \o ValueItems(l[Len(l)])
TableItems(t) ==
  IF t = << >> THEN << >>
  ELSE TableItems(SubSeq(t, 1, Len(t) - 1))
         \o << KeyItem(t[Len(t)].Key), DelimItem(kKeyValSep) >>
         \o ValueItems(t[Len(t)].Value)

\* C4: a successful call returns the tree that, written out entry by entry and
\* element by element in its own order, gives back the tokens of the source:
\* one entry per pair and one element per value, at the depth and in the order
\* they were written, an empty list or table having length zero.
C4_StructureAndOrder ==
  (ret.returned /\ ret.err = NilError) => TableItems(ret.table) = ItemsOf(p.tokens)

\* A list of two different elements is returned.
C4_Witness ==
  /\ call = "Parse"
  /\ ret.returned
  /\ ret.err = NilError
  /\ Len(ret.table) = 1
  /\ ret.table[1].Value.Kind = "list"
  /\ Len(ret.table[1].Value.Data.List) = 2
  /\ ret.table[1].Value.Data.List[1] # ret.table[1].Value.Data.List[2]


(***************************************************************************)
(* AbortOnError changes the delivery of an error only                      *)
(***************************************************************************)

\* The call, and after it the same call with AbortOnError set.
NextAbort == Next \/ CallAgainWithAbort

SpecAbort == Init /\ [][NextAbort]_vars

AtStringValue == AtScanValue /\ ScanExpect(TrimLeft(s.content), kStringBegin)

RECURSIVE BackslashRun(_, _)
\* The number of backslashes in a row that end at index j of str, the opening
\* quote at index 1 left aside.
BackslashRun(str, j) ==
  IF j <= 1 \/ str[j] # kBackslash THEN 0 ELSE 1 + BackslashRun(str, j - 1)

\* The quotes of str after the opening one that an even number of backslashes
\* precedes.
UnescapedQuotes(str) ==
  {j \in 2..Len(str) : str[j] = kStringBegin /\ BackslashRun(str, j - 1) % 2 = 0}

\* The first of them.
FirstUnescapedQuote(str) ==
  CHOOSE j \in UnescapedQuotes(str) : \A k \in UnescapedQuotes(str) : j <= k

\* C8: the token of a quoted string ends at the first quote that an even
\* number of backslashes precedes, zero included; a quote after an odd number
\* is escaped and the scan goes on, which fails only when no unescaped quote
\* follows.  So "\\" with two backslashes is one complete token.
C8_StringEndsAtUnescapedQuote ==
  [][AtStringValue =>
       IF UnescapedQuotes(TrimLeft(s.content)) = {}
         THEN s'.err = ScanError(s.line, "string value does not end with quote")
         ELSE /\ Len(s'.tokens) > Len(s.tokens)
              /\ s'.tokens[Len(s.tokens) + 1] =
                   Token("value",
                         SubSeq(TrimLeft(s.content), 1,
                                FirstUnescapedQuote(TrimLeft(s.content))),
                         s.line)]_vars

(***************************************************************************)
(* The line count                                                          *)
(***************************************************************************)

\* What Scan has consumed of the text.
Consumed == SubSeq(text, 1, Len(text) - Len(s.content))

\* C9: at every point of Scan the line counter is 1 plus the number of
\* newlines consumed from the text, whatever holds them: the text between
\* pairs, a comment, a raw string or a quoted string.
C9_LineCountAccurate ==
  call = "Parse" => s.line = 1 + CountNewlines(Consumed)

(***************************************************************************)
(* ParseTokens out of tokens                                               *)
(***************************************************************************)

\* C10: ParseTokens never reads a token at an index >= len(tokens), and when
\* it needs a token and none is left it returns the parse error "expected
\* token, have nothing".
C10_OutOfTokensIsAnError ==
  (call = "ParseTokens" /\ ~flags.AbortOnError) =>
    /\ fault # RuntimeFault("token index out of range")
    /\ (Ended /\ ParserExhausted(p) /\ ~(ret.returned /\ ret.err = NilError)) =>
         /\ ret.returned
         /\ ret.err.phase = "parse"
         /\ ret.err.msg = "expected token, have nothing"

(***************************************************************************)
(* ucs_to_utf8 on its own                                                  *)
(***************************************************************************)

\* The pipeline is not running while a codec primitive is called on its own.
NoPipeline ==
  /\ flags = [AbortOnError |-> FALSE]
  /\ text = << >>
  /\ s = NewScanner(<< >>)
  /\ sframes = << >>
  /\ scanRet = NoReturn
  /\ p = NewParser(<< >>)
  /\ pframes = << >>
  /\ ret = NoReturn
  /\ fault = NoFault
  /\ first = NoFirst

\* How far around each boundary the code points are taken, and the step of the
\* sample across the whole range.
Window == 6
Stride == 4099

\* The boundaries of the ranges of ucs_to_utf8.
Boundaries ==
  {0, 127, 128, 2047, 2048, 55295, 55296, 57343, 57344, 65535, 65536, 1114111, 1114112}

\* Code points beyond 32 bits, among them ones whose low bits are those of 'A'
\* and of a surrogate.
WideCodes ==
  { << 65, 0, 1, 0 >>, << 55296, 0, 1, 0 >>, << 0, 0, 0, 1 >>, << 65, 0, 0, LimbBase \div 2 >>,
    MaxU64 }

\* The code points ucs_to_utf8 is called with.
CodePoints ==
  {U64(c) : c \in {b + d : b \in Boundaries, d \in (0 - Window)..Window} \cap Nat}
    \cup {U64(k * Stride) : k \in 0..(1114112 \div Stride + Window)}
    \cup {<< 0, LimbBase \div 2 + d, 0, 0 >> : d \in 0..Window}
    \cup WideCodes

InitUtf8 ==
  /\ NoPipeline
  /\ call = "ucs_to_utf8"
  /\ arg \in CodePoints
  /\ res = NoRes
  /\ pc = "call"

\* ucs_to_utf8(arg) is called and returns.
CallUcsToUtf8 ==
  /\ call = "ucs_to_utf8"
  /\ pc = "call"
  /\ res' = ucs_to_utf8(arg)
  /\ pc' = "done"
  /\ UNCHANGED << call, flags, text, s, sframes, scanRet, p, pframes, ret, fault, first, arg >>

SpecUtf8 == InitUtf8 /\ [][CallUcsToUtf8]_vars

\* The code point is a Unicode scalar value: at most 0x10FFFF and no surrogate.
IsScalarValue(code) ==
  /\ code[3] = 0
  /\ code[4] = 0
  /\ code[2] <= 16
  /\ ~(code[2] = 0 /\ code[1] \in 55296..57343)

\* The length of the shortest UTF-8 form of the code point c.
Utf8Length(c) == IF c <= 127 THEN 1 ELSE IF c <= 2047 THEN 2 ELSE IF c <= 65535 THEN 3 ELSE 4

\* The byte b is a continuation byte, 10xxxxxx.
IsContinuation(b) == b \div 64 = 2

\* The bytes are one well-formed UTF-8 sequence: a lead byte that tells their
\* number, then continuation bytes.
IsUtf8Sequence(bytes) ==
  /\ Len(bytes) \in 1..4
  /\ \A j \in 1..Len(bytes) : bytes[j] \in 0..255
  /\ Len(bytes) = 1 => bytes[1] \div 128 = 0
  /\ Len(bytes) = 2 => bytes[1] \div 32 = 6
  /\ Len(bytes) = 3 => bytes[1] \div 16 = 14
  /\ Len(bytes) = 4 => bytes[1] \div 8 = 30
  /\ \A j \in 2..Len(bytes) : IsContinuation(bytes[j])

RECURSIVE Utf8Payload(_)
\* The code point a well-formed UTF-8 sequence carries.
Utf8Payload(bytes) ==
  IF Len(bytes) = 1
    THEN (IF bytes[1] < 128 THEN bytes[1]
          ELSE IF bytes[1] < 224 THEN bytes[1] % 32
          ELSE IF bytes[1] < 240 THEN bytes[1] % 16
          ELSE bytes[1] % 8)
  ELSE 64 * Utf8Payload(SubSeq(bytes, 1, Len(bytes) - 1)) + (bytes[Len(bytes)] % 64)

\* C5: ucs_to_utf8 returns nil for the surrogates 0xD800..0xDFFF and for every
\* code point above 0x10FFFF, and for every other code point the standard UTF-8
\* encoding: a well-formed sequence of the shortest length for the code point
\* (1, 2, 3 or 4 bytes) that carries exactly that code point.
C5_StandardUtf8 ==
  (call = "ucs_to_utf8" /\ pc = "done") =>
    IF IsScalarValue(arg)
      THEN /\ IsUtf8Sequence(res)
           /\ Len(res) = Utf8Length(U64ToNat(arg))
           /\ Utf8Payload(res) = U64ToNat(arg)
      ELSE res = NilBytes

\* The last code point is encoded in four bytes, the one after it not at all,
\* and the last surrogate not at all.
C5_Witness ==
  /\ call = "ucs_to_utf8"
  /\ pc = "done"
  /\ \/ arg = U64(1114111) /\ Len(res) = 4
     \/ arg = U64(1114112) /\ res = NilBytes
     \/ arg = U64(57343) /\ res = NilBytes


(***************************************************************************)
(* str_to_int on its own                                                   *)
(***************************************************************************)

\* Natural numbers of any size: the limbs from the lowest up, the highest not
\* zero; zero has no limb.
RECURSIVE BigMulAdd(_, _, _)
\* a * m + c, for small m and c.
BigMulAdd(a, m, c) ==
  IF a = << >> THEN (IF c = 0 THEN << >> ELSE << c >>)
  ELSE << (a[1] * m + c) % LimbBase >> \o BigMulAdd(Tail(a), m, (a[1] * m + c) \div LimbBase)

RECURSIVE BigDivMod(_, _)
\* The quotient (its highest limbs possibly zero) and the remainder of a by a
\* small m.
BigDivMod(a, m) ==
  IF a = << >> THEN [q |-> << >>, r |-> 0]
  ELSE LET hi == BigDivMod(Tail(a), m)
           cur == hi.r * LimbBase + a[1]
       IN  [q |-> << cur \div m >> \o hi.q, r |-> cur % m]

RECURSIVE BigNorm(_)
\* The limbs without zeros on top.
BigNorm(a) ==
  IF a = << >> \/ a[Len(a)] # 0 THEN a ELSE BigNorm(SubSeq(a, 1, Len(a) - 1))

\* a < b.
BigLess(a, b) ==
  \/ Len(a) < Len(b)
  \/ /\ Len(a) = Len(b)
     /\ \E j \in 1..Len(a) : a[j] < b[j] /\ \A k \in (j + 1)..Len(a) : a[k] = b[k]

RECURSIVE BigDigits(_, _)
\* The digits of a > 0 in the base, the highest first.
BigDigits(a, base) ==
  IF a = << >> THEN << >>
  ELSE BigDigits(BigNorm(BigDivMod(a, base).q), base) \o << BigDivMod(a, base).r >>

\* The number of digits that are taken at a time, the base to that power
\* being at most 2^14.
ChunkLen(base) == CASE base = 2 -> 14 [] base = 16 -> 3 [] OTHER -> 4

RECURSIVE SmallValue(_, _)
\* The number a few digits stand for in the base.
SmallValue(digits, base) ==
  IF digits = << >> THEN 0
  ELSE SmallValue(SubSeq(digits, 1, Len(digits) - 1), base) * base + digits[Len(digits)]

RECURSIVE BigValue(_, _)
\* The number the digits stand for in the base.
BigValue(digits, base) ==
  IF Len(digits) <= ChunkLen(base) THEN BigMulAdd(<< >>, 1, SmallValue(digits, base))
  ELSE BigMulAdd(BigValue(SubSeq(digits, 1, Len(digits) - ChunkLen(base)), base),
                 base ^ ChunkLen(base),
                 SmallValue(SubSeq(digits, Len(digits) - ChunkLen(base) + 1, Len(digits)),
                            base))

Big2p63 == << 0, 0, 0, LimbBase \div 2 >>
Big2p64 == << 0, 0, 0, 0, 1 >>

\* How far around 0, 2^63 and 2^64 the magnitudes are taken, and how many
\* zeros are written in front of the digits.
MagWindow == 5
MaxZeros == 1

\* The magnitudes of the literals.
Magnitudes ==
  {BigMulAdd(lo, 1, d) :
     lo \in { << >>,
              << LimbBase - MagWindow, LimbBase - 1, LimbBase - 1, LimbBase \div 2 - 1 >>,
              << LimbBase - MagWindow, LimbBase - 1, LimbBase - 1, LimbBase - 1 >>,
              << LimbBase - MagWindow, LimbBase \div 2 - 1 >>,
              << LimbBase - MagWindow, LimbBase - 1, LimbBase - 1, LimbBase - 1, 9 >> },
     d \in 0..(2 * MagWindow)}

\* The character of the digit d, a letter in upper case or not.
DigitChar(d, upper) ==
  IF d < 10 THEN chr_0 + d ELSE (IF upper THEN chr_a - 32 ELSE chr_a) + (d - 10)

\* The prefix that selects the base.
BasePrefix(base) ==
  CASE base = 16 -> << chr_0, chr_x >>
    [] base = 8 -> << chr_0, chr_o >>
    [] base = 2 -> << chr_0, chr_b >>
    [] OTHER -> << >>

\* A literal: its sign, its base and its digits, and the text lit they are
\* written as.
Literal(sign, base, digits, upper) ==
  [sign |-> sign, base |-> base, digits |-> digits,
   lit |-> sign \o BasePrefix(base)
             \o [j \in 1..Len(digits) |-> DigitChar(digits[j], upper)]]

\* The literals str_to_int is called with.
Literals ==
  { Literal(sign, base,
            [j \in 1..zeros |-> 0] \o (IF m = << >> THEN << 0 >> ELSE BigDigits(m, base)),
            upper) :
      sign \in {<< >>, << chr_plus >>, << chr_minus >>},
      base \in {10, 16, 8, 2},
      zeros \in 0..MaxZeros,
      m \in Magnitudes,
      upper \in BOOLEAN }

InitInt ==
  /\ NoPipeline
  /\ call = "str_to_int"
  /\ arg \in Literals
  /\ res = NoRes
  /\ pc = "call"

\* str_to_int(arg.lit, 0) is called and returns.
CallStrToInt ==
  /\ call = "str_to_int"
  /\ pc = "call"
  /\ res' = str_to_int(arg.lit, 0)
  /\ pc' = "done"
  /\ UNCHANGED << call, flags, text, s, sframes, scanRet, p, pframes, ret, fault, first, arg >>

SpecInt == InitInt /\ [][CallStrToInt]_vars

\* The mathematical magnitude of the literal, and whether it has the '-' sign.
LiteralMagnitude == BigValue(arg.digits, arg.base)
LiteralNegative == arg.sign = << chr_minus >>

\* The value of the literal lies in [-2^63, 2^63 - 1].
LiteralInRange ==
  IF LiteralNegative THEN ~BigLess(Big2p63, LiteralMagnitude)
  ELSE BigLess(LiteralMagnitude, Big2p63)

RECURSIVE BigAdd(_, _, _)
\* a + b + c, for a carry c.
BigAdd(a, b, c) ==
  IF a = << >> /\ b = << >> THEN (IF c = 0 THEN << >> ELSE << c >>)
  ELSE LET x == (IF a = << >> THEN 0 ELSE a[1]) + (IF b = << >> THEN 0 ELSE b[1]) + c
       IN  << x % LimbBase >>
             \o BigAdd(IF a = << >> THEN a ELSE Tail(a), IF b = << >> THEN b ELSE Tail(b),
                       x \div LimbBase)

\* The 64 bits are the int64 of the literal's value, which is in range: the
\* value itself when it is not negative, its two's complement when it is.
IsLiteralValue(bits) ==
  IF LiteralNegative /\ LiteralMagnitude # << >>
    THEN BigNorm(BigAdd(bits, LiteralMagnitude, 0)) = Big2p64
  ELSE BigNorm(bits) = LiteralMagnitude

\* The literal has no base prefix, and a zero in front of further digits.
HasLeadingZero == arg.base = 10 /\ Len(arg.digits) > 1 /\ arg.digits[1] = 0

\* What C7 says of the literal that was converted.
ValueOrError ==
  /\ IF LiteralInRange THEN res.st = "ok" /\ IsLiteralValue(res.val) ELSE res.st = "err"
  /\ ~BigLess(LiteralMagnitude, Big2p64) =>
       res.err \in {"invalid input, mul overflows", "invalid input, add overflows"}

\* C7 as stated: for every literal made of an optional sign, an optional base
\* prefix and digits valid for the base, str_to_int(lit, 0) returns the value of
\* the literal when it lies in [-2^63, 2^63 - 1] and an error otherwise, a
\* magnitude of 2^64 or more being rejected where the multiplication or the
\* addition would overflow.
C7_ValueOrError_AnyLiteral ==
  (call = "str_to_int" /\ pc = "done") => ValueOrError

\* C7, amended: the same for every such literal that does not write a zero in
\* front of further decimal digits; a literal without prefix that starts with 0
\* and goes on is rejected with an error, whatever its value.
C7_ValueOrError ==
  (call = "str_to_int" /\ pc = "done") =>
    IF HasLeadingZero THEN res.st = "err" ELSE ValueOrError

\* The magnitude 2^63 written in decimal with the '-' sign is accepted.
C7_Witness ==
  /\ call = "str_to_int"
  /\ pc = "done"
  /\ arg.base = 10
  /\ ~HasLeadingZero
  /\ LiteralNegative
  /\ LiteralMagnitude = Big2p63
  /\ res.st = "ok"

(***************************************************************************)
(* Scanner and parser agree on the grammar                                 *)
(***************************************************************************)

\* Parse has scanned all of the text without error and is parsing the tokens.
ScanSucceeded ==
  call = "Parse" /\ scanRet.returned /\ scanRet.err = NilError

\* The errors of a parser that meets a token its grammar does not allow.
UnexpectedTokenErrors ==
  { "expected key token", "missing key value separator",
    "expected value token", "missing key value end" }

\* The errors of parse_key on a key token.
KeyErrors ==
  { "key is not a valid identifier", "key is not unique for current table" }

\* The errors of parse_simple_value on a value token it cannot decode.
ScalarErrors ==
  { "could not normalize string", "value is not an integer" }

\* The parser has ended without a table: with an error or with a fault.
ParseFailed ==
  \/ pc = "panic"
  \/ pc = "done" /\ ret.returned /\ ret.err # NilError

\* C11 (as stated, a failure being an error returned): after a Scan that
\* succeeded, ParseTokens never ends with a fault of the runtime, any error it
\* returns is one of an invalid identifier, a duplicate key or an undecodable
\* scalar, and on success its cursor equals the number of tokens.
C11_GrammarAgreement_ErrorsOnly ==
  (ScanSucceeded /\ ~flags.AbortOnError) =>
    /\ pc # "panic"
    /\ ParseFailed => ret.err.msg \in KeyErrors \cup ScalarErrors
    /\ (pc = "done" /\ ret.err = NilError) => p.i = Len(p.tokens)

\* The grammar part of C11 on its own, a failure being an error returned or a
\* fault: after a Scan that succeeded the parser never meets a token its
\* grammar does not allow and never runs out of tokens; it fails only at a key
\* token, on an invalid identifier or a duplicate key, or at a value token, on
\* a scalar it cannot decode (the empty scalar ends it with a fault); and on
\* success its cursor equals the number of tokens.
GrammarAgreement ==
  (ScanSucceeded /\ ~flags.AbortOnError) =>
    /\ ret.err.msg \notin UnexpectedTokenErrors
    /\ fault # RuntimeFault("token index out of range")
    /\ ParseFailed =>
         /\ ~ParserExhausted(p)
         /\ \/ /\ ParserExpect(p, "key")
               /\ pc = "done"
               /\ ret.err.msg \in KeyErrors
            \/ /\ ParserExpect(p, "value")
               /\ IF pc = "done" THEN ret.err.msg \in ScalarErrors
                  ELSE /\ ParserGet(p).Value = << >>
                       /\ fault = RuntimeFault("string index out of range")
    /\ (pc = "done" /\ ret.err = NilError) => p.i = Len(p.tokens)

(***************************************************************************)
(* Termination                                                             *)
(***************************************************************************)

\* The number of fragments of a text whose call is followed to its end, at most.
MaxFairFrags == 3

InitFair ==
  /\ first = NoFirst
  /\ \/ \E t \in Texts(MaxFairFrags) : CallParse(t, [AbortOnError |-> FALSE])
     \/ \E toks \in TokenSeqs : CallParseTokens(toks, [AbortOnError |-> FALSE])

\* A call runs on its own thread of control: a step that can be taken is taken.
SpecFair == InitFair /\ [][Next]_vars /\ WF_vars(Next)

\* The scanner is running.
Scanning == pc \in {"scan_loop", "scan_value"}

\* The parser is running.
Parsing == pc \in {"parse_loop", "parse_value"}

\* A step of the scanner shortens the text that is left, or ends the scan: with
\* an error, or at the end of the text with the tokens handed to the parser.
ScanProgress ==
  Scanning =>
    \/ Len(s'.content) < Len(s.content)
    \/ Ended'
    \/ Len(s.content) = 0 /\ sframes = << >> /\ pc' = "parse_loop"

\* A step of the parser advances the token cursor, or ends the call: with an
\* error, or at the end of the tokens with the table.
ParseProgress ==
  Parsing =>
    \/ p'.i > p.i
    \/ Ended'

\* C12: Scan and ParseTokens terminate on every finite input: every step of
\* the scanner's loops strictly shortens the remaining text or ends the scan,
\* every step of the parser's loops advances the token cursor or ends the
\* parse, and so every call comes to its end.
C12_Terminates ==
  /\ [][ScanProgress /\ ParseProgress]_vars
  /\ <>Ended

\* Parse has come to its end after the loops of a list and of the top level
\* have run, in the scanner and in the parser.
C12_Witness ==
  /\ call = "Parse"
  /\ pc = "done"
  /\ ret.returned
  /\ ret.err = NilError
  /\ s.content = << >>
  /\ p.i = Len(p.tokens)
  /\ \E j \in 1..Len(ret.table) :
       ret.table[j].Value.Kind = "list" /\ ret.table[j].Value.Data.List # << >>

(***************************************************************************)
(* Trailing horizontal whitespace                                          *)
(***************************************************************************)

\* The number of fragments of a text that is scanned twice, at most.
MaxScanFrags == 3

\* The number of spaces and tabs put behind the text, at most.
MaxBlanks == 2

\* The strings of 1 to MaxBlanks spaces and tabs.
Blanks == UNION { [1..n -> spaces] : n \in 1..MaxBlanks }

\* Parse is called and only its call of Scan is followed.
InitScan ==
  /\ first = NoFirst
  /\ \E t \in Texts(MaxScanFrags) : CallParse(t, [AbortOnError |-> FALSE])

\* Scan has ended: it returned, or a panic left it.
ScanEnded == scanRet.returned \/ pc = "panic"

\* The caller scans the same text again, with spaces and tabs behind it.
ScanAgainWithBlanks ==
  /\ ScanEnded
  /\ ~first.made
  /\ \E w \in Blanks :
       /\ text' = text \o w
       /\ s' = NewScanner(text')
  /\ first' = [made |-> TRUE, scanRet |-> scanRet, ret |-> ret, fault |-> fault,
               s |-> s, p |-> p]
  /\ sframes' = << >>
  /\ scanRet' = NoReturn
  /\ p' = NewParser(<< >>)
  /\ pframes' = << >>
  /\ ret' = NoReturn
  /\ fault' = NoFault
  /\ pc' = "scan_loop"
  /\ UNCHANGED << call, flags, arg, res >>

NextScan == ScanStep \/ ScanAgainWithBlanks

SpecScan == InitScan /\ [][NextScan]_vars

\* C13: horizontal whitespace at the end of the input is insignificant: when
\* Scan succeeds on a text T, Scan of T followed by spaces and tabs succeeds
\* as well and returns the same token sequence; in particular a text of
\* spaces and tabs only scans to the empty token sequence without error.
C13_TrailingBlanksInsignificant ==
  (first.made /\ first.scanRet.err = NilError /\ ScanEnded) =>
    /\ scanRet.returned
    /\ scanRet.err = NilError
    /\ scanRet.tokens = first.scanRet.tokens

====
